---- MODULE Spec2Model ----
(***************************************************************************)
(* Model of the text alignment and diff engine of voice-ai                 *)
(* (backend/app/utils/diff_utils.py).                                      *)
(*                                                                         *)
(* A string is a sequence of one-character strings.  Indices into strings  *)
(* and lists are 0-based as in the Python source; At and Slice translate   *)
(* them to TLA+ sequences.  An index outside 0..len-1 is recorded in an    *)
(* "oob" flag instead of being evaluated.                                  *)
(*                                                                         *)
(* The history service (backend/app/services/history_service.py, with the  *)
(* routes of routers/history.py and the identity of routers/auth.py) is    *)
(* modelled by HistorySpec over records, session_tokens and last_call.     *)
(***************************************************************************)
EXTENDS Integers, Sequences, FiniteSets, TLC

\* ------------------------------------------------------------------ bounds
MaxRefLen == 3
MaxTransLen == 3
\* the longest segment list handed to the merger on its own
MaxSegments == 3
\* the longest reference and transcription of the calls checked for
\* termination
MaxFairLen == 2

\* --------------------------------------------------------- program constants
LookaheadWindow_off_by_one == 10 + 1

\* the lookahead window of the mismatch step (the literal 10)
LookaheadWindow == 10

\* -------------------------------------------------------------- characters
WILDCARD == "*"

\* characters whose Unicode general category starts with 'P'
PunctuationChars == {",", ".", "!", "?", "-", "*"}

WhitespaceChars == {" ", "\t", "\n", "\r"}

is_punctuation(char) == char \in PunctuationChars

is_whitespace(char) == char \in WhitespaceChars

is_matchable_keeps_ws(char) == ~is_punctuation(char)

is_matchable(char) == ~is_punctuation(char) /\ ~is_whitespace(char)

\* ------------------------------------------------------- Python primitives
MinOf(S) == CHOOSE m \in S : \A x \in S : m <= x

Min2(a, b) == IF a <= b THEN a ELSE b

InBounds(seq, i) == 0 <= i /\ i < Len(seq)

\* seq[i] for an index already known to be in bounds
At(seq, i) == seq[i + 1]

\* seq[lo:hi] for non-negative lo, hi (a slice never raises, it clamps)
Slice(seq, lo, hi) == SubSeq(seq, lo + 1, Min2(hi, Len(seq)))

\* s.replace('*', '')
StripWildcards(s) == SelectSeq(s, LAMBDA c : c # WILDCARD)

\* ------------------------------------------------------------- normalizer
RECURSIVE normalize_loop(_, _, _, _)
normalize_loop(text, keep_wildcards, i, acc) ==
    IF i >= Len(text) THEN acc
    ELSE LET char == At(text, i)
             kept == [text |-> Append(acc.text, char),
                      mapping |-> Append(acc.mapping, i)]
         IN IF keep_wildcards /\ char = WILDCARD
               THEN normalize_loop(text, keep_wildcards, i + 1, kept)
            ELSE IF is_matchable(char)
               THEN normalize_loop(text, keep_wildcards, i + 1, kept)
            ELSE normalize_loop(text, keep_wildcards, i + 1, acc)

normalize_with_mapping_dense(text, keep_wildcards) ==
    IF text = <<>> THEN [text |-> <<>>, mapping |-> <<>>]
    ELSE LET n == normalize_loop(text, keep_wildcards, 0,
                                 [text |-> <<>>, mapping |-> <<>>])
         IN [text |-> n.text, mapping |-> [i \in 1..Len(n.text) |-> i - 1]]

normalize_with_mapping(text, keep_wildcards) ==
    IF text = <<>> THEN [text |-> <<>>, mapping |-> <<>>]
    ELSE normalize_loop(text, keep_wildcards, 0, [text |-> <<>>, mapping |-> <<>>])

\* ---------------------------------------------------------- reconstructor
\* the normalized range [start_idx, end_idx) as original transcription text
get_trans_text_unclamped(trans_original, trans_mapping, start_idx, end_idx) ==
    IF start_idx >= Len(trans_mapping) \/ end_idx <= 0
       THEN [oob |-> FALSE, text |-> <<>>]
    ELSE IF ~InBounds(trans_mapping, start_idx) \/ ~InBounds(trans_mapping, end_idx)
       THEN [oob |-> TRUE, text |-> <<>>]
    ELSE [oob |-> FALSE,
          text |-> Slice(trans_original, At(trans_mapping, start_idx),
                         At(trans_mapping, end_idx))]

get_trans_text_normalized(trans_original, trans_mapping, start_idx, end_idx) ==
    IF start_idx >= Len(trans_mapping) \/ end_idx <= 0
       THEN [oob |-> FALSE, text |-> <<>>]
    ELSE IF ~InBounds(trans_mapping, start_idx)
       THEN [oob |-> TRUE, text |-> <<>>]
    ELSE [oob |-> FALSE,
          text |-> SelectSeq(Slice(trans_original, At(trans_mapping, start_idx),
                                   IF end_idx >= Len(trans_mapping)
                                      THEN Len(trans_original)
                                      ELSE At(trans_mapping, end_idx)),
                             is_matchable)]

get_trans_text_from_zero(trans_original, trans_mapping, start_idx, end_idx) ==
    IF start_idx >= Len(trans_mapping) \/ end_idx <= 0
       THEN [oob |-> FALSE, text |-> <<>>]
    ELSE IF ~InBounds(trans_mapping, start_idx)
       THEN [oob |-> TRUE, text |-> <<>>]
    ELSE [oob |-> FALSE,
          text |-> Slice(trans_original, 0,
                         IF end_idx >= Len(trans_mapping)
                            THEN Len(trans_original)
                            ELSE At(trans_mapping, end_idx))]

get_trans_text_no_padding(trans_original, trans_mapping, start_idx, end_idx) ==
    IF start_idx >= Len(trans_mapping) \/ end_idx <= 0
       THEN [oob |-> FALSE, text |-> <<>>]
    ELSE IF ~InBounds(trans_mapping, start_idx) \/ ~InBounds(trans_mapping, end_idx - 1)
       THEN [oob |-> TRUE, text |-> <<>>]
    ELSE [oob |-> FALSE,
          text |-> Slice(trans_original, At(trans_mapping, start_idx),
                         At(trans_mapping, end_idx - 1) + 1)]

get_trans_text(trans_original, trans_mapping, start_idx, end_idx) ==
    IF start_idx >= Len(trans_mapping) \/ end_idx <= 0
       THEN [oob |-> FALSE, text |-> <<>>]
    ELSE IF ~InBounds(trans_mapping, start_idx)
       THEN [oob |-> TRUE, text |-> <<>>]
    ELSE LET start_orig == At(trans_mapping, start_idx)
             end_orig == IF end_idx >= Len(trans_mapping)
                            THEN Len(trans_original)
                            ELSE At(trans_mapping, end_idx)
         IN [oob |-> FALSE, text |-> Slice(trans_original, start_orig, end_orig)]

\* ------------------------------------------------------------------ merger
Segment(type, text) == [type |-> type, text |-> text]

\* result.append(segment) guarded by "if text:"
AppendIfText(result, type, text) ==
    IF text # <<>> THEN Append(result, Segment(type, text)) ELSE result

RECURSIVE merge_loop(_, _, _)
merge_loop(result, k, merged) ==
    IF k > Len(result) THEN merged
    ELSE LET segment == result[k]
         IN IF segment.text = <<>>
               THEN merge_loop(result, k + 1, merged)
            ELSE IF merged # <<>> /\ merged[Len(merged)].type = segment.type
               THEN merge_loop(result, k + 1,
                        [merged EXCEPT ![Len(merged)].text = @ \o segment.text])
            ELSE merge_loop(result, k + 1, Append(merged, segment))

RECURSIVE merge_loop_prev_input(_, _, _)
merge_loop_prev_input(result, k, merged) ==
    IF k > Len(result) THEN merged
    ELSE LET segment == result[k]
         IN IF segment.text = <<>>
               THEN merge_loop_prev_input(result, k + 1, merged)
            ELSE IF merged # <<>> /\ k > 1 /\ result[k - 1].type = segment.type
               THEN merge_loop_prev_input(result, k + 1,
                        [merged EXCEPT ![Len(merged)].text = @ \o segment.text])
            ELSE merge_loop_prev_input(result, k + 1, Append(merged, segment))

merge_prev_input(result) == merge_loop_prev_input(result, 1, <<>>)

merge_no_merge(result) == SelectSeq(result, LAMBDA s : s.text # <<>>)

merge(result) == merge_loop(result, 1, <<>>)

\* ----------------------------------------------------------------- aligner
\* The local state of one call of match_with_wildcard: its four arguments,
\* the two cursors, the segment list, whether the loop executed a break,
\* and whether an index outside its sequence was used.
NewFrame(rn, tn, to, tm) ==
    [ref_norm |-> rn, trans_norm |-> tn, trans_original |-> to,
     trans_mapping |-> tm, ref_idx |-> 0, trans_idx |-> 0,
     result |-> <<>>, brk |-> FALSE, oob |-> FALSE]

\* while ref_idx < ref_len or trans_idx < trans_len
LoopCond(f) == f.ref_idx < Len(f.ref_norm) \/ f.trans_idx < Len(f.trans_norm)

MaxOf(S) == CHOOSE m \in S : \A x \in S : m >= x

FirstIndexOf_last(seq, char, lo, hi, skip_wildcards) ==
    LET hits == {i \in lo..(hi - 1) :
                    /\ InBounds(seq, i)
                    /\ ~(skip_wildcards /\ At(seq, i) = WILDCARD)
                    /\ At(seq, i) = char}
    IN IF hits = {} THEN [oob |-> FALSE, idx |-> -1]
       ELSE [oob |-> FALSE, idx |-> MaxOf(hits)]

\* first i in range(lo, hi) with seq[i] = char, -1 when there is none
\* (skip_wildcards: positions holding '*' are passed over)
FirstIndexOf(seq, char, lo, hi, skip_wildcards) ==
    LET bad == {i \in lo..(hi - 1) : ~InBounds(seq, i)}
        hits == {i \in lo..(hi - 1) :
                    /\ InBounds(seq, i)
                    /\ ~(skip_wildcards /\ At(seq, i) = WILDCARD)
                    /\ At(seq, i) = char}
    IN IF bad \cup hits = {} THEN [oob |-> FALSE, idx |-> -1]
       ELSE LET m == MinOf(bad \cup hits)
            IN IF m \in bad THEN [oob |-> TRUE, idx |-> -1]
               ELSE [oob |-> FALSE, idx |-> m]

\* next_ref_idx: the first position after ref_idx that holds no '*'
RECURSIVE SkipWildcardRun(_, _)
SkipWildcardRun(ref_norm, next_ref_idx) ==
    IF next_ref_idx < Len(ref_norm) /\ At(ref_norm, next_ref_idx) = WILDCARD
       THEN SkipWildcardRun(ref_norm, next_ref_idx + 1)
       ELSE next_ref_idx

RefExhaustedStep_off_by_one(f) ==
    LET t == get_trans_text(f.trans_original, f.trans_mapping,
                            f.trans_idx + 1, Len(f.trans_norm))
    IN [f EXCEPT !.result = AppendIfText(@, "insert", t.text),
                 !.brk = TRUE, !.oob = t.oob]

\* reference exhausted, the remaining transcription is extra
RefExhaustedStep(f) ==
    LET t == get_trans_text(f.trans_original, f.trans_mapping,
                            f.trans_idx, Len(f.trans_norm))
    IN [f EXCEPT !.result = AppendIfText(@, "insert", t.text),
                 !.brk = TRUE, !.oob = t.oob]

TransExhaustedStep_off_by_one(f) ==
    LET remaining == StripWildcards(Slice(f.ref_norm, f.ref_idx + 1, Len(f.ref_norm)))
    IN [f EXCEPT !.result = AppendIfText(@, "delete", remaining),
                 !.brk = TRUE]

TransExhaustedStep_keep_wildcards(f) ==
    LET remaining == Slice(f.ref_norm, f.ref_idx, Len(f.ref_norm))
    IN [f EXCEPT !.result = AppendIfText(@, "delete", remaining),
                 !.brk = TRUE]

\* transcription exhausted, the remaining reference is missing
TransExhaustedStep(f) ==
    LET remaining == StripWildcards(Slice(f.ref_norm, f.ref_idx, Len(f.ref_norm)))
    IN [f EXCEPT !.result = AppendIfText(@, "delete", remaining),
                 !.brk = TRUE]

WildcardStep_drops_text(f) ==
    LET trans_len == Len(f.trans_norm)
        next_ref_idx == SkipWildcardRun(f.ref_norm, f.ref_idx + 1)
    IN IF next_ref_idx >= Len(f.ref_norm)
          THEN LET t == get_trans_text(f.trans_original, f.trans_mapping,
                                       f.trans_idx, trans_len)
               IN [f EXCEPT !.result = AppendIfText(@, "equal", t.text),
                            !.brk = TRUE, !.oob = t.oob]
       ELSE LET next_ref_char == At(f.ref_norm, next_ref_idx)
                found == FirstIndexOf(f.trans_norm, next_ref_char,
                                      f.trans_idx, trans_len, FALSE)
                found_idx == found.idx
            IN IF found.oob THEN [f EXCEPT !.oob = TRUE]
               ELSE IF found_idx = -1
                  THEN LET t == get_trans_text(f.trans_original, f.trans_mapping,
                                               f.trans_idx, trans_len)
                       IN [f EXCEPT !.result = AppendIfText(@, "equal", t.text),
                                    !.ref_idx = next_ref_idx,
                                    !.trans_idx = trans_len,
                                    !.oob = t.oob]
               ELSE IF found_idx = f.trans_idx
                  THEN [f EXCEPT !.ref_idx = next_ref_idx]
               ELSE [f EXCEPT !.ref_idx = next_ref_idx,
                              !.trans_idx = found_idx]

WildcardStep_zero_width_stuck(f) ==
    LET trans_len == Len(f.trans_norm)
        next_ref_idx == SkipWildcardRun(f.ref_norm, f.ref_idx + 1)
    IN IF next_ref_idx >= Len(f.ref_norm)
          THEN LET t == get_trans_text(f.trans_original, f.trans_mapping,
                                       f.trans_idx, trans_len)
               IN [f EXCEPT !.result = AppendIfText(@, "equal", t.text),
                            !.brk = TRUE, !.oob = t.oob]
       ELSE LET next_ref_char == At(f.ref_norm, next_ref_idx)
                found == FirstIndexOf(f.trans_norm, next_ref_char,
                                      f.trans_idx, trans_len, FALSE)
                found_idx == found.idx
            IN IF found.oob THEN [f EXCEPT !.oob = TRUE]
               ELSE IF found_idx = -1
                  THEN LET t == get_trans_text(f.trans_original, f.trans_mapping,
                                               f.trans_idx, trans_len)
                       IN [f EXCEPT !.result = AppendIfText(@, "equal", t.text),
                                    !.ref_idx = next_ref_idx,
                                    !.trans_idx = trans_len,
                                    !.oob = t.oob]
               ELSE IF found_idx = f.trans_idx
                  THEN f
               ELSE LET t == get_trans_text(f.trans_original, f.trans_mapping,
                                            f.trans_idx, found_idx)
                    IN [f EXCEPT !.result = AppendIfText(@, "equal", t.text),
                                 !.ref_idx = next_ref_idx,
                                 !.trans_idx = found_idx,
                                 !.oob = t.oob]

\* the reference cursor is on a '*'
WildcardStep(f) ==
    LET trans_len == Len(f.trans_norm)
        next_ref_idx == SkipWildcardRun(f.ref_norm, f.ref_idx + 1)
    IN IF next_ref_idx >= Len(f.ref_norm)
          THEN LET t == get_trans_text(f.trans_original, f.trans_mapping,
                                       f.trans_idx, trans_len)
               IN [f EXCEPT !.result = AppendIfText(@, "equal", t.text),
                            !.brk = TRUE, !.oob = t.oob]
       ELSE LET next_ref_char == At(f.ref_norm, next_ref_idx)
                found == FirstIndexOf(f.trans_norm, next_ref_char,
                                      f.trans_idx, trans_len, FALSE)
                found_idx == found.idx
            IN IF found.oob THEN [f EXCEPT !.oob = TRUE]
               ELSE IF found_idx = -1
                  THEN LET t == get_trans_text(f.trans_original, f.trans_mapping,
                                               f.trans_idx, trans_len)
                       IN [f EXCEPT !.result = AppendIfText(@, "equal", t.text),
                                    !.ref_idx = next_ref_idx,
                                    !.trans_idx = trans_len,
                                    !.oob = t.oob]
               ELSE IF found_idx = f.trans_idx
                  THEN [f EXCEPT !.ref_idx = next_ref_idx]
               ELSE LET t == get_trans_text(f.trans_original, f.trans_mapping,
                                            f.trans_idx, found_idx)
                    IN [f EXCEPT !.result = AppendIfText(@, "equal", t.text),
                                 !.ref_idx = next_ref_idx,
                                 !.trans_idx = found_idx,
                                 !.oob = t.oob]

\* ref_char == trans_char, with the following character rendered as well
EqualStep_wide(f) ==
    LET t == get_trans_text(f.trans_original, f.trans_mapping,
                            f.trans_idx, f.trans_idx + 2)
    IN [f EXCEPT !.result = AppendIfText(@, "equal", t.text),
                 !.ref_idx = @ + 1, !.trans_idx = @ + 1, !.oob = t.oob]

\* ref_char == trans_char
EqualStep(f) ==
    LET t == get_trans_text(f.trans_original, f.trans_mapping,
                            f.trans_idx, f.trans_idx + 1)
    IN [f EXCEPT !.result = AppendIfText(@, "equal", t.text),
                 !.ref_idx = @ + 1, !.trans_idx = @ + 1, !.oob = t.oob]

\* missing, with the character the scan stopped at included
MissingText_inclusive(ref_norm, lo, hi) ==
    StripWildcards(Slice(ref_norm, lo, hi + 1))

\* missing: the non-wildcard characters of ref_norm[lo:hi]
MissingText(ref_norm, lo, hi) == StripWildcards(Slice(ref_norm, lo, hi))

\* ref_char != trans_char: find the best alignment
MismatchStep(f) ==
    LET ref_len == Len(f.ref_norm)
        trans_len == Len(f.trans_norm)
        ref_char == At(f.ref_norm, f.ref_idx)
        trans_char == At(f.trans_norm, f.trans_idx)
        a == FirstIndexOf(f.trans_norm, ref_char, f.trans_idx,
                          Min2(f.trans_idx + LookaheadWindow, trans_len), FALSE)
        b == FirstIndexOf(f.ref_norm, trans_char, f.ref_idx,
                          Min2(f.ref_idx + LookaheadWindow, ref_len), TRUE)
        ref_found_in_trans == a.idx
        trans_found_in_ref == b.idx
    IN IF a.oob \/ b.oob THEN [f EXCEPT !.oob = TRUE]
       ELSE IF /\ ref_found_in_trans # -1
               /\ \/ trans_found_in_ref = -1
                  \/ ref_found_in_trans - f.trans_idx <= trans_found_in_ref - f.ref_idx
          THEN LET t == get_trans_text(f.trans_original, f.trans_mapping,
                                       f.trans_idx, ref_found_in_trans)
               IN [f EXCEPT !.result = AppendIfText(@, "insert", t.text),
                            !.trans_idx = ref_found_in_trans,
                            !.oob = t.oob]
       ELSE IF trans_found_in_ref # -1
          THEN LET missing == MissingText(f.ref_norm, f.ref_idx, trans_found_in_ref)
               IN [f EXCEPT !.result = AppendIfText(@, "delete", missing),
                            !.ref_idx = trans_found_in_ref]
       ELSE LET t == get_trans_text(f.trans_original, f.trans_mapping,
                                    f.trans_idx, f.trans_idx + 1)
            IN [f EXCEPT !.result = AppendIfText(
                                        Append(@, Segment("delete", <<ref_char>>)),
                                        "insert", t.text),
                         !.ref_idx = @ + 1, !.trans_idx = @ + 1, !.oob = t.oob]

\* which branch of the loop body the frame takes
Branch(f) ==
    IF f.ref_idx >= Len(f.ref_norm) THEN "ref_exhausted"
    ELSE IF f.trans_idx >= Len(f.trans_norm) THEN "trans_exhausted"
    ELSE IF At(f.ref_norm, f.ref_idx) = WILDCARD THEN "wildcard"
    ELSE IF At(f.ref_norm, f.ref_idx) = At(f.trans_norm, f.trans_idx) THEN "equal"
    ELSE "mismatch"

\* one iteration of the while loop
LoopBody(f) ==
    CASE Branch(f) = "ref_exhausted" -> RefExhaustedStep(f)
      [] Branch(f) = "trans_exhausted" -> TransExhaustedStep(f)
      [] Branch(f) = "wildcard" -> WildcardStep(f)
      [] Branch(f) = "equal" -> EqualStep(f)
      [] Branch(f) = "mismatch" -> MismatchStep(f)

\* the while loop run to its end
RECURSIVE AlignLoop(_)
AlignLoop(f) ==
    IF f.oob \/ f.brk \/ ~LoopCond(f) THEN f ELSE AlignLoop(LoopBody(f))

\* a returned value: the segment list, or the record of a failed index
Returned(segments) == [oob |-> FALSE, segments |-> segments]

Failed == [oob |-> TRUE, segments |-> <<>>]

match_with_wildcard(ref_norm, trans_norm, trans_original, trans_mapping) ==
    LET f == AlignLoop(NewFrame(ref_norm, trans_norm, trans_original, trans_mapping))
    IN IF f.oob THEN Failed ELSE Returned(merge(f.result))

\* ------------------------------------------------------------ compute_diff
\* the value compute_diff returns without running the aligner,
\* or NoEarlyReturn when it reaches the call of match_with_wildcard
NoEarlyReturn == [oob |-> FALSE, segments |-> <<>>, aligner |-> TRUE]

EarlyReturn_both_empty(reference, transcription) ==
    LET ref_norm == normalize_with_mapping(reference, TRUE).text
        trans_norm == normalize_with_mapping(transcription, FALSE).text
    IN IF reference = <<>> /\ transcription = <<>> THEN Returned(<<>>)
       ELSE IF ref_norm = <<>> /\ trans_norm = <<>> THEN Returned(<<>>)
       ELSE IF ref_norm = <<>>
          THEN Returned(<<Segment("insert", transcription)>>)
       ELSE IF trans_norm = <<>>
          THEN LET ref_no_wildcard == StripWildcards(ref_norm)
               IN IF ref_no_wildcard # <<>>
                     THEN Returned(<<Segment("delete", ref_no_wildcard)>>)
                     ELSE Returned(<<>>)
       ELSE NoEarlyReturn

EarlyReturn_insert_normalized(reference, transcription) ==
    LET ref_norm == normalize_with_mapping(reference, TRUE).text
        trans_norm == normalize_with_mapping(transcription, FALSE).text
    IN IF reference = <<>> \/ transcription = <<>> THEN Returned(<<>>)
       ELSE IF ref_norm = <<>> /\ trans_norm = <<>> THEN Returned(<<>>)
       ELSE IF ref_norm = <<>>
          THEN Returned(<<Segment("insert", trans_norm)>>)
       ELSE IF trans_norm = <<>>
          THEN LET ref_no_wildcard == StripWildcards(ref_norm)
               IN IF ref_no_wildcard # <<>>
                     THEN Returned(<<Segment("delete", ref_no_wildcard)>>)
                     ELSE Returned(<<>>)
       ELSE NoEarlyReturn

EarlyReturn(reference, transcription) ==
    LET ref_norm == normalize_with_mapping(reference, TRUE).text
        trans_norm == normalize_with_mapping(transcription, FALSE).text
    IN IF reference = <<>> \/ transcription = <<>> THEN Returned(<<>>)
       ELSE IF ref_norm = <<>> /\ trans_norm = <<>> THEN Returned(<<>>)
       ELSE IF ref_norm = <<>>
          THEN Returned(<<Segment("insert", transcription)>>)
       ELSE IF trans_norm = <<>>
          THEN LET ref_no_wildcard == StripWildcards(ref_norm)
               IN IF ref_no_wildcard # <<>>
                     THEN Returned(<<Segment("delete", ref_no_wildcard)>>)
                     ELSE Returned(<<>>)
       ELSE NoEarlyReturn

compute_diff(reference, transcription) ==
    LET ref_norm == normalize_with_mapping(reference, TRUE).text
        trans == normalize_with_mapping(transcription, FALSE)
    IN IF EarlyReturn(reference, transcription) # NoEarlyReturn
          THEN EarlyReturn(reference, transcription)
          ELSE match_with_wildcard(ref_norm, trans.text, transcription, trans.mapping)

\* ------------------------------------------------------------------ inputs
\* the characters the bounded inputs are built from: two matchable
\* characters, a whitespace character and '*'
Alphabet == {"a", "b", " ", "*"}

BoundedStrings(n) == UNION {[1..k -> Alphabet] : k \in 0..n}

\* the (reference, transcription) pairs of the documented scenarios
ExactPair == <<<<"h", "e", "l", "l", "o", " ", "w", "o", "r", "l", "d">>,
      <<"h", "e", "l", "l", "o", " ", "w", "o", "r", "l", "d">>>>

InsertionPair == <<<<"a", "b", "c">>,
      <<"a", "b", "c", "e", "x", "t", "r", "a">>>>

DeletionPair == <<<<"a", "b", "c", "e", "x", "t", "r", "a">>,
      <<"a", "b", "c">>>>

WildcardMidPair == <<<<"a", "*", "b">>,
      <<"a", "x", "y", "z", "b">>>>

WildcardEndPair == <<<<"h", "e", "l", "l", "o", "*">>,
      <<"h", "e", "l", "l", "o", " ", "w", "o", "r", "l", "d">>>>

\* pairs that reach the edge of the lookahead window: the character looked
\* for is 10 positions ahead (outside the window) or 9 (the last inside)
TransWindowMissPair == <<<<"b">>,
      <<"a", "a", "a", "a", "a", "a", "a", "a", "a", "a", "b">>>>

TransWindowHitPair == <<<<"b">>,
      <<"a", "a", "a", "a", "a", "a", "a", "a", "a", "b">>>>

RefWindowMissPair == <<<<"a", "a", "a", "a", "a", "a", "a", "a", "a", "a", "b">>,
      <<"b">>>>

RefWindowHitPair == <<<<"a", "a", "a", "a", "a", "a", "a", "a", "a", "b">>,
      <<"b">>>>

ExamplePairs == {ExactPair, InsertionPair, DeletionPair,
                 WildcardMidPair, WildcardEndPair,
                 TransWindowMissPair, TransWindowHitPair,
                 RefWindowMissPair, RefWindowHitPair}

Inputs == (BoundedStrings(MaxRefLen) \X BoundedStrings(MaxTransLen))
              \cup ExamplePairs

\* ------------------------------------------------------------ state machine
VARIABLES
    reference,      \* argument of compute_diff
    transcription,  \* argument of compute_diff
    ref_norm,       \* normalized reference (wildcards kept)
    trans_norm,     \* normalized transcription
    trans_mapping,  \* normalized position -> original position
    ref_idx,        \* reference cursor
    trans_idx,      \* transcription cursor
    result,         \* segments appended so far, unmerged
    ret,            \* the list compute_diff returns
    iterations,     \* how many times the loop body has run
    pc,             \* "call", "loop", "merge", "done", "error"; "remerged"
                    \* once the merger has run on its own output; "idle"
                    \* when no call of compute_diff is under way
    records,        \* the rows of table transcription_records
    session_tokens, \* the rows of table session_tokens
    last_call       \* the latest call of the history service: its name,
                    \* the identity it ran with, the rows it returned and
                    \* the rows it deleted

vars == <<reference, transcription, ref_norm, trans_norm, trans_mapping,
          ref_idx, trans_idx, result, ret, iterations, pc,
          records, session_tokens, last_call>>

history_vars == <<records, session_tokens, last_call>>

\* Optional[int] without a value; the ids of users start at 1
None == 0

\* the history tables are empty and no call of the service has been made
HistoryIdle ==
    /\ records = {}
    /\ session_tokens = {}
    /\ last_call = [op |-> "none", user_id |-> None, returned |-> {},
                    deleted |-> {}]

\* a call of compute_diff on one of the given pairs is about to start
InitWith(inputs) ==
    /\ \E in \in inputs : reference = in[1] /\ transcription = in[2]
    /\ ref_norm = <<>>
    /\ trans_norm = <<>>
    /\ trans_mapping = <<>>
    /\ ref_idx = 0
    /\ trans_idx = 0
    /\ result = <<>>
    /\ ret = <<>>
    /\ iterations = 0
    /\ pc = "call"
    /\ HistoryIdle

Init == InitWith(Inputs)

\* the frame of the running call of match_with_wildcard
Frame ==
    [ref_norm |-> ref_norm, trans_norm |-> trans_norm,
     trans_original |-> transcription, trans_mapping |-> trans_mapping,
     ref_idx |-> ref_idx, trans_idx |-> trans_idx,
     result |-> result, brk |-> FALSE, oob |-> FALSE]

\* compute_diff up to its return or its call of match_with_wildcard
Call ==
    /\ pc = "call"
    /\ LET early == EarlyReturn(reference, transcription)
           ref == normalize_with_mapping(reference, TRUE)
           trans == normalize_with_mapping(transcription, FALSE)
       IN IF early # NoEarlyReturn
             THEN /\ ret' = early.segments
                  /\ pc' = "done"
                  /\ UNCHANGED <<ref_norm, trans_norm, trans_mapping>>
             ELSE /\ ref_norm' = ref.text
                  /\ trans_norm' = trans.text
                  /\ trans_mapping' = trans.mapping
                  /\ pc' = IF LoopCond(NewFrame(ref.text, trans.text,
                                                transcription, trans.mapping))
                              THEN "loop" ELSE "merge"
                  /\ ret' = ret
    /\ UNCHANGED <<reference, transcription, ref_idx, trans_idx, result,
                   iterations>>
    /\ UNCHANGED history_vars

\* the effect of one loop iteration that produced frame g
Commit(g) ==
    /\ ref_idx' = g.ref_idx
    /\ trans_idx' = g.trans_idx
    /\ result' = g.result
    /\ iterations' = iterations + 1
    /\ pc' = IF g.oob THEN "error"
             ELSE IF g.brk \/ ~LoopCond(g) THEN "merge"
             ELSE "loop"
    /\ UNCHANGED <<reference, transcription, ref_norm, trans_norm,
                   trans_mapping, ret>>
    /\ UNCHANGED history_vars

RefExhausted ==
    /\ pc = "loop"
    /\ Branch(Frame) = "ref_exhausted"
    /\ Commit(RefExhaustedStep(Frame))

TransExhausted ==
    /\ pc = "loop"
    /\ Branch(Frame) = "trans_exhausted"
    /\ Commit(TransExhaustedStep(Frame))

Wildcard ==
    /\ pc = "loop"
    /\ Branch(Frame) = "wildcard"
    /\ Commit(WildcardStep(Frame))

Equal ==
    /\ pc = "loop"
    /\ Branch(Frame) = "equal"
    /\ Commit(EqualStep(Frame))

Mismatch ==
    /\ pc = "loop"
    /\ Branch(Frame) = "mismatch"
    /\ Commit(MismatchStep(Frame))

\* merge consecutive segments of the same type and return
Merge ==
    /\ pc = "merge"
    /\ ret' = merge(result)
    /\ pc' = "done"
    /\ UNCHANGED <<reference, transcription, ref_norm, trans_norm,
                   trans_mapping, ref_idx, trans_idx, result, iterations>>
    /\ UNCHANGED history_vars

Next ==
    \/ Call
    \/ RefExhausted
    \/ TransExhausted
    \/ Wildcard
    \/ Equal
    \/ Mismatch
    \/ Merge

Spec == Init /\ [][Next]_vars

\* a call that has started keeps running: the function is synchronous and
\* nothing can suspend it
FairInputs == (BoundedStrings(MaxFairLen) \X BoundedStrings(MaxFairLen))
                  \cup ExamplePairs

FairInit == InitWith(FairInputs)

FairSpec == FairInit /\ [][Next]_vars /\ WF_vars(Next)

\* ------------------------------------------------- the merger on its own
\* the segments a list handed to the merger is built from: every type, with
\* an empty and two non-empty texts
SegmentTypes == {"equal", "delete", "insert"}

SegmentTexts == {<<>>, <<"a">>, <<"b">>}

Segments == {Segment(type, text) : type \in SegmentTypes, text \in SegmentTexts}

SegmentLists(n) == UNION {[1..k -> Segments] : k \in 0..n}

\* the merge step is about to run on an arbitrary segment list
MergeInit ==
    /\ result \in SegmentLists(MaxSegments)
    /\ pc = "merge"
    /\ reference = <<>>
    /\ transcription = <<>>
    /\ ref_norm = <<>>
    /\ trans_norm = <<>>
    /\ trans_mapping = <<>>
    /\ ref_idx = 0
    /\ trans_idx = 0
    /\ ret = <<>>
    /\ iterations = 0
    /\ HistoryIdle

\* the merger applied to the list it returned
Remerge ==
    /\ pc = "done"
    /\ result' = ret
    /\ ret' = merge(ret)
    /\ pc' = "remerged"
    /\ UNCHANGED <<reference, transcription, ref_norm, trans_norm,
                   trans_mapping, ref_idx, trans_idx, iterations>>
    /\ UNCHANGED history_vars

MergeNext ==
    \/ Merge
    \/ Remerge

MergeSpec == MergeInit /\ [][MergeNext]_vars

\* ----------------------------------------------------- the history service
\* how many rows the model lets transcription_records hold at a time
MaxRecords == 3

\* users.id of the users that exist
UserIds == {1, 2}

\* what a call of the service is made with: a user id, or None for a guest
Identities == UserIds \cup {None}

\* the values of session_tokens.token, and one that is in no row
Tokens == {"t1", "t2"}

UnknownToken == "unknown"

\* the Authorization header: absent, or a scheme prefix and the rest
NoHeader == [scheme |-> "", token |-> ""]

Headers ==
    {NoHeader} \cup
    {[scheme |-> s, token |-> t] :
        s \in {"Bearer ", "Basic "}, t \in Tokens \cup {UnknownToken}}

\* AuthService.validate_token: the user id of the row holding the token,
\* None when there is no such row or it has expired; an expired row is
\* deleted
validate_token(table, token) ==
    LET rows == {s \in table : s.token = token}
    IN IF rows = {} THEN [user_id |-> None, session_tokens |-> table]
       ELSE LET session_token == CHOOSE s \in rows : TRUE
            IN IF session_token.expired
                  THEN [user_id |-> None, session_tokens |-> table \ rows]
                  ELSE [user_id |-> session_token.user_id,
                        session_tokens |-> table]

get_current_user_id(table, authorization) ==
    IF authorization = NoHeader
       THEN [user_id |-> None, session_tokens |-> table]
    ELSE IF authorization.scheme # "Bearer "
       THEN [user_id |-> None, session_tokens |-> table]
    ELSE validate_token(table, authorization.token)

\* the id a new row gets: an INTEGER PRIMARY KEY of the default SQLite
\* database is one more than the largest id in the table
NewId(table) ==
    IF table = {} THEN 1 ELSE MaxOf({r.id : r \in table}) + 1

\* HistoryService.create_record: the row added
create_record(table, user_id) == [id |-> NewId(table), user_id |-> user_id]

\* HistoryService.get_record_by_id: the rows selected (at most one)
get_record_by_id(table, record_id, user_id) ==
    {r \in table :
        /\ r.id = record_id
        /\ user_id # None => r.user_id = user_id}

\* HistoryService.delete_record: the rows deleted (at most one)
delete_record(table, record_id, user_id) ==
    {r \in table :
        /\ r.id = record_id
        /\ user_id # None => r.user_id = user_id}

\* HistoryService.delete_all_records: the rows deleted
delete_all_records(table, user_id) ==
    IF user_id = None THEN {}
    ELSE {r \in table : r.user_id = user_id}

\* no call of compute_diff is under way
EngineIdle ==
    /\ reference = <<>>
    /\ transcription = <<>>
    /\ ref_norm = <<>>
    /\ trans_norm = <<>>
    /\ trans_mapping = <<>>
    /\ ref_idx = 0
    /\ trans_idx = 0
    /\ result = <<>>
    /\ ret = <<>>
    /\ iterations = 0
    /\ pc = "idle"

engine_vars == <<reference, transcription, ref_norm, trans_norm,
                 trans_mapping, ref_idx, trans_idx, result, ret, iterations,
                 pc>>

\* an empty history and one valid session token per user
HistoryInit ==
    /\ EngineIdle
    /\ records = {}
    /\ session_tokens =
           {[token |-> "t1", user_id |-> 1, expired |-> FALSE],
            [token |-> "t2", user_id |-> 2, expired |-> FALSE]}
    /\ last_call = [op |-> "none", user_id |-> None, returned |-> {},
                    deleted |-> {}]

\* a call of HistoryService.create_record with any identity (the transcribe
\* route passes none, which stores None)
CreateRecord ==
    /\ NewId(records) <= MaxRecords
    /\ \E user_id \in Identities :
           LET record == create_record(records, user_id)
           IN /\ records' = records \cup {record}
              /\ last_call' = [op |-> "create_record", user_id |-> user_id,
                               returned |-> {record}, deleted |-> {}]
    /\ UNCHANGED session_tokens
    /\ UNCHANGED engine_vars

\* GET /history/{record_id}: the identity comes from the Authorization
\* header; 404 when no row is selected, and the request's session is then
\* rolled back, which undoes the deletion of an expired token
GetHistoryById ==
    /\ \E authorization \in Headers, record_id \in 1..MaxRecords :
           LET auth == get_current_user_id(session_tokens, authorization)
               record == get_record_by_id(records, record_id, auth.user_id)
           IN /\ last_call' = [op |-> "get_record_by_id",
                               user_id |-> auth.user_id,
                               returned |-> record, deleted |-> {}]
              /\ session_tokens' = IF record = {} THEN session_tokens
                                   ELSE auth.session_tokens
    /\ UNCHANGED records
    /\ UNCHANGED engine_vars

\* DELETE /history/{record_id}: 404 and a rollback when no row was deleted
DeleteHistory ==
    /\ \E authorization \in Headers, record_id \in 1..MaxRecords :
           LET auth == get_current_user_id(session_tokens, authorization)
               rows == delete_record(records, record_id, auth.user_id)
               deleted == rows # {}
           IN /\ records' = records \ rows
              /\ last_call' = [op |-> "delete_record",
                               user_id |-> auth.user_id,
                               returned |-> {}, deleted |-> rows]
              /\ session_tokens' = IF ~deleted THEN session_tokens
                                   ELSE auth.session_tokens
    /\ UNCHANGED engine_vars

\* DELETE /history
ClearAllHistory ==
    /\ \E authorization \in Headers :
           LET auth == get_current_user_id(session_tokens, authorization)
               rows == delete_all_records(records, auth.user_id)
           IN /\ records' = records \ rows
              /\ last_call' = [op |-> "delete_all_records",
                               user_id |-> auth.user_id,
                               returned |-> {}, deleted |-> rows]
              /\ session_tokens' = auth.session_tokens
    /\ UNCHANGED engine_vars

\* the clock passes the expires_at of a session token
TokenExpires ==
    /\ \E s \in session_tokens :
           /\ ~s.expired
           /\ session_tokens' =
                  (session_tokens \ {s}) \cup {[s EXCEPT !.expired = TRUE]}
    /\ UNCHANGED <<records, last_call>>
    /\ UNCHANGED engine_vars

HistoryNext ==
    \/ CreateRecord
    \/ GetHistoryById
    \/ DeleteHistory
    \/ ClearAllHistory
    \/ TokenExpires

HistorySpec == HistoryInit /\ [][HistoryNext]_vars

\* ------------------------------------------------------ claim vocabulary
Chars(str) == {str[i] : i \in 1..Len(str)}

RefNormOf(str) == normalize_with_mapping(str, TRUE).text

TransNormOf(str) == normalize_with_mapping(str, FALSE).text

IsProperPrefix(p, s) == Len(p) < Len(s) /\ SubSeq(s, 1, Len(p)) = p

RECURSIVE IsSubsequence(_, _)
IsSubsequence(s, w) ==
    IF s = <<>> THEN TRUE
    ELSE IF w = <<>> THEN FALSE
    ELSE IF Head(s) = Head(w) THEN IsSubsequence(Tail(s), Tail(w))
    ELSE IsSubsequence(s, Tail(w))

\* the texts of the segments of the given types, concatenated in order
RECURSIVE ConcatText(_, _)
ConcatText(segments, types) ==
    IF segments = <<>> THEN <<>>
    ELSE (IF Head(segments).type \in types THEN Head(segments).text ELSE <<>>)
             \o ConcatText(Tail(segments), types)

Returns == pc = "done"

\* C1: compute_diff returns the empty list whenever the reference or the
\* transcription is the empty string, whatever the other argument contains.
C1_EmptyInputReturnsEmpty ==
    (Returns /\ (reference = <<>> \/ transcription = <<>>)) => ret = <<>>

\* an empty reference against a transcription that has matchable text
C1_Witness ==
    /\ Returns
    /\ reference = <<>>
    /\ TransNormOf(transcription) # <<>>
    /\ ret = <<>>

\* C2: in the returned list no two adjacent segments have the same type and
\* no segment has empty text.
C2_NoAdjacentSameType ==
    Returns =>
        \A i \in 1..Len(ret) :
            /\ ret[i].text # <<>>
            /\ i < Len(ret) => ret[i].type # ret[i + 1].type

\* a call in which the merger joined segments and still returned several
C2_Witness ==
    /\ Returns
    /\ Len(ret) >= 2
    /\ Len(result) > Len(ret)

\* C3: the texts of the returned equal and insert segments, concatenated in
\* order, form a subsequence of the original transcription.
C3_OutputIsSubsequence ==
    Returns => IsSubsequence(ConcatText(ret, {"equal", "insert"}), transcription)

\* a result with equal and insert text that leaves part of the
\* transcription out
C3_Witness ==
    /\ Returns
    /\ \E i \in 1..Len(ret) : ret[i].type = "equal"
    /\ \E i \in 1..Len(ret) : ret[i].type = "insert"
    /\ Len(ConcatText(ret, {"equal", "insert"})) < Len(transcription)

C5_PureInsertion ==
    (/\ Returns
     /\ WILDCARD \notin Chars(reference)
     /\ RefNormOf(reference) # <<>>
     /\ IsProperPrefix(RefNormOf(reference), TransNormOf(transcription)))
    => LET mapping == normalize_with_mapping(transcription, FALSE).mapping
           k == Len(RefNormOf(reference))
       IN /\ ret = <<Segment("equal", Slice(transcription, At(mapping, 0),
                                            At(mapping, k))),
                     Segment("insert", Slice(transcription, At(mapping, k),
                                             Len(transcription)))>>
          /\ <<reference, transcription>> = InsertionPair
                => ret = <<Segment("equal", <<"a", "b", "c">>),
                           Segment("insert", <<"e", "x", "t", "r", "a">>)>>

C5_Witness ==
    /\ Returns
    /\ <<reference, transcription>> = InsertionPair
    /\ Len(ret) = 2
    /\ ret[2].type = "insert"

\* C6: a normalized transcription that is a non-empty proper prefix of the
\* wildcard-free normalized reference yields an equal segment covering the
\* transcription followed by one delete segment holding the remaining
\* normalized reference; ("abcextra", "abc") gives
\* [equal "abc", delete "extra"].
C6_PureDeletion ==
    (/\ Returns
     /\ WILDCARD \notin Chars(reference)
     /\ TransNormOf(transcription) # <<>>
     /\ IsProperPrefix(TransNormOf(transcription), RefNormOf(reference)))
    => LET mapping == normalize_with_mapping(transcription, FALSE).mapping
           k == Len(TransNormOf(transcription))
       IN /\ ret = <<Segment("equal", Slice(transcription, At(mapping, 0),
                                            Len(transcription))),
                     Segment("delete", Slice(RefNormOf(reference), k,
                                             Len(RefNormOf(reference))))>>
          /\ <<reference, transcription>> = DeletionPair
                => ret = <<Segment("equal", <<"a", "b", "c">>),
                           Segment("delete", <<"e", "x", "t", "r", "a">>)>>

C6_Witness ==
    /\ Returns
    /\ <<reference, transcription>> = DeletionPair
    /\ Len(ret) = 2
    /\ ret[2].type = "delete"

\* C7 (as stated): the text consumed by a wildcard is returned as its own
\* equal segment: ("a*b", "axyzb") gives [equal "a", equal "xyz",
\* equal "b"] and ("hello*", "hello world") gives [equal "hello",
\* equal " world"].
C7_WildcardSegmentsSeparate ==
    /\ (Returns /\ <<reference, transcription>> = WildcardMidPair)
          => ret = <<Segment("equal", <<"a">>), Segment("equal", <<"x", "y", "z">>),
                     Segment("equal", <<"b">>)>>
    /\ (Returns /\ <<reference, transcription>> = WildcardEndPair)
          => ret = <<Segment("equal", <<"h", "e", "l", "l", "o">>),
                     Segment("equal", <<" ", "w", "o", "r", "l", "d">>)>>

\* C7 (amended): the text consumed by a wildcard is appended to the
\* unmerged list as its own equal segment, and the merger joins it with the
\* equal segments around it: ("a*b", "axyzb") appends [equal "a",
\* equal "xyz", equal "b"] and returns [equal "axyzb"]; ("hello*",
\* "hello world") appends equal "world" for the wildcard after the literal
\* matches "h", "e", "l", "l", "o " and returns [equal "hello world"].
C7_WildcardSegmentsMerged ==
    /\ (Returns /\ <<reference, transcription>> = WildcardMidPair)
          => /\ result = <<Segment("equal", <<"a">>), Segment("equal", <<"x", "y", "z">>),
                           Segment("equal", <<"b">>)>>
             /\ ret = <<Segment("equal", <<"a", "x", "y", "z", "b">>)>>
    /\ (Returns /\ <<reference, transcription>> = WildcardEndPair)
          => /\ result = <<Segment("equal", <<"h">>), Segment("equal", <<"e">>), Segment("equal", <<"l">>),
                           Segment("equal", <<"l">>), Segment("equal", <<"o", " ">>),
                           Segment("equal", <<"w", "o", "r", "l", "d">>)>>
             /\ ret = <<Segment("equal", <<"h", "e", "l", "l", "o", " ", "w", "o", "r", "l", "d">>)>>

C7_Witness ==
    /\ Returns
    /\ <<reference, transcription>> = WildcardMidPair
    /\ Len(result) = 3
    /\ Len(ret) = 1

\* C8: the text of every returned delete segment consists of matchable
\* characters only: no punctuation, no whitespace and no '*'.
C8_DeleteTextMatchable ==
    Returns =>
        \A i \in 1..Len(ret) :
            ret[i].type = "delete" =>
                \A c \in Chars(ret[i].text) :
                    /\ c \notin PunctuationChars
                    /\ c \notin WhitespaceChars
                    /\ c # WILDCARD

\* a delete segment returned for a reference that holds whitespace and '*'
C8_Witness ==
    /\ Returns
    /\ " " \in Chars(reference)
    /\ WILDCARD \in Chars(reference)
    /\ \E i \in 1..Len(ret) : ret[i].type = "delete"

\* punctuation and whitespace as a reference and as a transcription see
\* them ('*' is a wildcard in a reference and punctuation in a transcription)
RefPadding == (PunctuationChars \cup WhitespaceChars) \ {WILDCARD}

TransPadding == PunctuationChars \cup WhitespaceChars

\* One representative of the non-empty strings that differ from str only in
\* the characters of pad: str without them, or a single blank when nothing
\* else is left.  Inputs that differ only in padding have the same
\* representative, so agreeing with the representative on every input is
\* agreeing pairwise.
Canonical(str, pad) ==
    LET stripped == SelectSeq(str, LAMBDA c : c \notin pad)
    IN IF stripped = <<>> THEN <<" ">> ELSE stripped

\* the segment types of a returned value, with the text of its deletes
Shape(value) ==
    [oob |-> value.oob,
     segments |-> [i \in 1..Len(value.segments) |->
                      IF value.segments[i].type = "delete"
                         THEN value.segments[i]
                         ELSE [type |-> value.segments[i].type]]]

\* C9: punctuation and whitespace never influence alignment: non-empty
\* references that differ only in punctuation/whitespace give the same
\* result on every transcription, and non-empty transcriptions with the same
\* matchable characters give the same segment types and delete texts.
C9_PunctuationInsensitive ==
    Returns =>
        /\ reference # <<>> =>
              compute_diff(Canonical(reference, RefPadding), transcription)
                  = Returned(ret)
        /\ transcription # <<>> =>
              Shape(compute_diff(reference, Canonical(transcription, TransPadding)))
                  = Shape(Returned(ret))

\* an aligned call whose reference and transcription both hold padding
C9_Witness ==
    /\ Returns
    /\ reference # Canonical(reference, RefPadding)
    /\ transcription # Canonical(transcription, TransPadding)
    /\ RefNormOf(reference) # <<>>
    /\ TransNormOf(transcription) # <<>>
    /\ Len(ret) >= 2

\* C10: compute_diff is total: it never reaches an error state, what it
\* returns is a list of segments, and the cursors and the mapping stay
\* within the bounds of the sequences they index.
C10_Total ==
    /\ pc # "error"
    /\ pc = "call" => ~compute_diff(reference, transcription).oob
    /\ Returns => \A i \in 1..Len(ret) :
                      /\ DOMAIN ret[i] = {"type", "text"}
                      /\ ret[i].type \in {"equal", "delete", "insert"}
    /\ 0 <= ref_idx /\ ref_idx <= Len(ref_norm)
    /\ 0 <= trans_idx /\ trans_idx <= Len(trans_norm)
    /\ Len(trans_mapping) = Len(trans_norm)
    /\ \A i \in 1..Len(trans_mapping) : InBounds(transcription, trans_mapping[i])
    /\ pc = "loop" => LoopCond(Frame)

\* a finished alignment of inputs of different lengths, with a wildcard in
\* the reference and punctuation in the transcription
C10_Witness ==
    /\ Returns
    /\ Len(reference) # Len(transcription)
    /\ WILDCARD \in Chars(ref_norm)
    /\ Len(trans_norm) < Len(transcription)
    /\ trans_norm # <<>>
    /\ ret # <<>>

\* C11 (as stated): the returned list is empty only when both normalized
\* views are empty: a non-empty normalized reference or a non-empty
\* normalized transcription gives at least one segment.
C11_EmptyOnlyWhenBothNormsEmpty ==
    (Returns /\ (RefNormOf(reference) # <<>> \/ TransNormOf(transcription) # <<>>))
        => ret # <<>>

\* C11 (amended): the returned list is empty exactly when the reference is
\* the empty string, the transcription is the empty string, or the
\* normalized transcription is empty and the normalized reference holds
\* nothing but wildcards; in every other case it has at least one segment.
C11_EmptyResultCases ==
    Returns =>
        (ret = <<>> <=>
            \/ reference = <<>>
            \/ transcription = <<>>
            \/ /\ TransNormOf(transcription) = <<>>
               /\ StripWildcards(RefNormOf(reference)) = <<>>)

\* a wildcard-only reference against a transcription without matchable text
C11_Witness ==
    /\ Returns
    /\ RefNormOf(reference) # <<>>
    /\ StripWildcards(RefNormOf(reference)) = <<>>
    /\ transcription # <<>>
    /\ TransNormOf(transcription) = <<>>
    /\ ret = <<>>

\* C12: a non-empty reference with an empty normalized form against a
\* transcription with a matchable character yields exactly one segment, an
\* insert whose text is the original transcription unchanged.
C12_EmptyRefNormInsertsOriginal ==
    (/\ Returns
     /\ reference # <<>>
     /\ RefNormOf(reference) = <<>>
     /\ \E c \in Chars(transcription) :
            c \notin PunctuationChars /\ c \notin WhitespaceChars)
    => ret = <<Segment("insert", transcription)>>

\* the transcription carries leading and trailing padding
C12_Witness ==
    /\ Returns
    /\ reference # <<>>
    /\ RefNormOf(reference) = <<>>
    /\ Len(transcription) = 3
    /\ transcription[1] = " "
    /\ transcription[3] = " "
    /\ ret = <<Segment("insert", transcription)>>

\* C13: the merge step is idempotent: the merger applied to its own output
\* returns that output unchanged, for every input segment list.
C13_MergeIdempotent ==
    pc = "remerged" => ret = result

\* the first pass dropped or joined segments and left at least two
C13_Witness ==
    /\ pc = "remerged"
    /\ Len(ret) = 2
    /\ \E i \in 1..Len(ret) : Len(ret[i].text) >= 2

\* C14: a '*' matches one or more transcription characters: every wildcard
\* step, taken while transcription text remains, consumes at least one
\* matchable transcription character, that is, it appends an equal segment
\* that holds one.
C14_WildcardConsumesOneOrMore ==
    [][Wildcard =>
          /\ Len(result') = Len(result) + 1
          /\ result'[Len(result')].type = "equal"
          /\ \E c \in Chars(result'[Len(result')].text) :
                 c \notin PunctuationChars /\ c \notin WhitespaceChars]_vars

\* the end of the wildcard run under the reference cursor: the first
\* position after the cursor that holds a literal, or the reference length
RunEnd ==
    MinOf({n \in (ref_idx + 1)..Len(ref_norm) :
              n = Len(ref_norm) \/ ref_norm[n + 1] # WILDCARD})

\* where the run stops consuming: the first occurrence, at or after the
\* transcription cursor, of the literal that follows the run, or the end of
\* the transcription when there is no such literal or no occurrence
StopAt ==
    LET occurrences ==
            IF RunEnd < Len(ref_norm)
               THEN {j \in trans_idx..(Len(trans_norm) - 1) :
                        trans_norm[j + 1] = ref_norm[RunEnd + 1]}
               ELSE {}
    IN IF occurrences = {} THEN Len(trans_norm) ELSE MinOf(occurrences)

\* the original text of the normalized transcription positions lo..hi-1
OriginalSpan(lo, hi) ==
    SubSeq(transcription, trans_mapping[lo + 1] + 1,
           IF hi < Len(trans_mapping) THEN trans_mapping[hi + 1]
                                      ELSE Len(transcription))

\* what a wildcard step appends: the consumed characters as equal text,
\* nothing when the match is zero-width
WildcardAppends ==
    result' = IF StopAt > trans_idx
                 THEN Append(result, Segment("equal", OriginalSpan(trans_idx, StopAt)))
                 ELSE result

\* C15 (as stated): a wildcard step consumes as equal text the transcription
\* from the cursor up to the first occurrence of the literal that follows
\* the run (nothing when it is at the cursor, everything when there is no
\* literal or no occurrence), and in every case the reference cursor moves
\* past the whole run.
C15_WildcardStepMovesPastRun ==
    [][Wildcard =>
          /\ WildcardAppends
          /\ StopAt = trans_idx => trans_idx' = trans_idx
          /\ ref_idx' = RunEnd]_vars

\* C15 (amended): the consumed text is as stated; when a literal follows
\* the run the reference cursor moves past the whole run and the
\* transcription cursor moves to where the run stopped consuming; when no
\* literal follows the run the loop stops with both cursors left where they
\* were.
C15_WildcardStep ==
    [][Wildcard =>
          /\ WildcardAppends
          /\ StopAt = trans_idx => trans_idx' = trans_idx
          /\ IF RunEnd < Len(ref_norm)
                THEN ref_idx' = RunEnd /\ trans_idx' = StopAt
                ELSE ref_idx' = ref_idx /\ trans_idx' = trans_idx
                        /\ pc' = "merge"]_vars

\* a wildcard at the end of the reference has consumed the rest of the
\* transcription and stopped the loop
C15_Witness ==
    /\ <<reference, transcription>> = WildcardEndPair
    /\ pc = "merge"
    /\ ref_idx = 5
    /\ trans_idx = 5
    /\ result[Len(result)] = Segment("equal", <<"w", "o", "r", "l", "d">>)

\* the candidates of the mismatch step: the positions among the 10 from the
\* transcription cursor on that hold ref_char, and the positions among the
\* 10 from the reference cursor on that hold trans_char and no wildcard
ACandidates ==
    {a \in trans_idx..(trans_idx + 9) :
        a < Len(trans_norm) /\ trans_norm[a + 1] = ref_norm[ref_idx + 1]}

BCandidates ==
    {b \in ref_idx..(ref_idx + 9) :
        /\ b < Len(ref_norm)
        /\ ref_norm[b + 1] # WILDCARD
        /\ ref_norm[b + 1] = trans_norm[trans_idx + 1]}

\* C16: the mismatch step.  With a the first candidate in the transcription
\* window and b the first in the reference window: if a exists and (b does
\* not exist or a - trans_idx <= b - ref_idx) the step appends an insert for
\* the transcription span [trans_idx, a) and moves only trans_idx to a;
\* otherwise if b exists it appends a delete for the reference span
\* [ref_idx, b) without its wildcards and moves only ref_idx to b; otherwise
\* it appends a delete of ref_char and an insert for the one-character span
\* at trans_idx and advances both cursors by one.  No step skips more than 9
\* characters of either sequence.
C16_MismatchStep ==
    [][Mismatch =>
          LET a == MinOf(ACandidates)
              b == MinOf(BCandidates)
          IN /\ IF /\ ACandidates # {}
                   /\ (BCandidates = {} \/ a - trans_idx <= b - ref_idx)
                   THEN /\ result' = Append(result,
                               Segment("insert", OriginalSpan(trans_idx, a)))
                        /\ trans_idx' = a
                        /\ ref_idx' = ref_idx
                ELSE IF BCandidates # {}
                   THEN /\ result' = Append(result,
                               Segment("delete",
                                   SelectSeq(SubSeq(ref_norm, ref_idx + 1, b),
                                             LAMBDA c : c # WILDCARD)))
                        /\ ref_idx' = b
                        /\ trans_idx' = trans_idx
                ELSE /\ result' = result \o
                            <<Segment("delete", <<ref_norm[ref_idx + 1]>>),
                              Segment("insert",
                                      OriginalSpan(trans_idx, trans_idx + 1))>>
                     /\ ref_idx' = ref_idx + 1
                     /\ trans_idx' = trans_idx + 1
             /\ trans_idx' - trans_idx <= 9
             /\ ref_idx' - ref_idx <= 9]_vars

\* the reference character is 10 positions ahead in the transcription, just
\* outside the window: the step has deleted it and inserted one character
C16_Witness ==
    /\ <<reference, transcription>> = TransWindowMissPair
    /\ ref_idx = 1
    /\ trans_idx = 1
    /\ result = <<Segment("delete", <<"b">>), Segment("insert", <<"a">>)>>

\* C17: the alignment loop terminates without backtracking: every call
\* returns; each iteration either stops the loop or strictly increases
\* ref_idx + trans_idx; neither cursor ever decreases; both stay between 0
\* and the length of their sequence; and the loop body runs at most
\* ref_len + trans_len + 1 times.
C17_LoopTerminates ==
    /\ <>(pc = "done")
    /\ [](/\ 0 <= ref_idx /\ ref_idx <= Len(ref_norm)
          /\ 0 <= trans_idx /\ trans_idx <= Len(trans_norm)
          /\ iterations <= Len(ref_norm) + Len(trans_norm) + 1)
    /\ [][/\ ref_idx' >= ref_idx
          /\ trans_idx' >= trans_idx
          /\ pc = "loop" =>
                \/ pc' = "merge"
                \/ ref_idx' + trans_idx' > ref_idx + trans_idx]_vars

\* a call that returned several segments after at least three iterations
C17_Witness ==
    /\ Returns
    /\ iterations >= 3
    /\ Len(ret) >= 2

\* matchable as the data model defines it: neither punctuation nor
\* whitespace
Matchable(c) == c \notin PunctuationChars /\ c \notin WhitespaceChars

\* C18: reconstruction: every span [lo, hi) of normalized transcription
\* positions, 0 <= lo < hi <= len(mapping), is rendered as the original
\* substring from mapping[lo] up to mapping[hi], or up to the end of the
\* original when hi = len(mapping); hence every piece begins with a
\* matchable character, the padding after a matchable character belongs to
\* that character's piece, and the equal and insert segments the aligner
\* appends begin with a matchable character.
C18_Reconstruction ==
    pc \in {"loop", "merge", "done"} =>
        /\ \A lo \in 0..(Len(trans_mapping) - 1) :
               \A hi \in (lo + 1)..Len(trans_mapping) :
                   LET piece == get_trans_text(transcription, trans_mapping, lo, hi)
                   IN /\ ~piece.oob
                      /\ piece.text = OriginalSpan(lo, hi)
                      /\ piece.text # <<>>
                      /\ Matchable(piece.text[1])
                      /\ hi = lo + 1 =>
                            \A k \in 2..Len(piece.text) : ~Matchable(piece.text[k])
        /\ \A i \in 1..Len(result) :
               result[i].type \in {"equal", "insert"} =>
                   Matchable(result[i].text[1])

\* the aligner appended a piece that carries the whitespace after its
\* character, and went on to append another piece
C18_Witness ==
    /\ pc = "merge"
    /\ \E i \in 1..(Len(result) - 1) :
           /\ result[i].type \in {"equal", "insert"}
           /\ Len(result[i].text) = 2
           /\ result[i].text[2] = " "
           /\ result[i + 1].type \in {"equal", "insert"}

\* what the normalizer owes for one text and one setting of keep_wildcards
NormalizedCorrectly(text, keep_wildcards) ==
    LET n == normalize_with_mapping(text, keep_wildcards)
        Kept(c) == Matchable(c) \/ (keep_wildcards /\ c = WILDCARD)
    IN /\ n.text = SelectSeq(text, Kept)
       /\ Len(n.mapping) = Len(n.text)
       /\ \A i \in 1..Len(n.mapping) :
              /\ 0 <= n.mapping[i] /\ n.mapping[i] < Len(text)
              /\ text[n.mapping[i] + 1] = n.text[i]
              /\ i < Len(n.mapping) => n.mapping[i] < n.mapping[i + 1]
       /\ ~keep_wildcards => WILDCARD \notin Chars(n.text)

\* C19: normalize_with_mapping returns, in original order, exactly the
\* matchable characters of the text plus, only with keep_wildcards, every
\* '*'; the mapping has the length of the normalized text, is strictly
\* increasing, stays within the text and points at the character it stands
\* for; without keep_wildcards a '*' is dropped, so the normalized
\* transcription the aligner gets never contains '*'.
C19_NormalizeWithMapping ==
    /\ \A keep_wildcards \in BOOLEAN :
           /\ NormalizedCorrectly(reference, keep_wildcards)
           /\ NormalizedCorrectly(transcription, keep_wildcards)
    /\ pc \in {"loop", "merge"} =>
           /\ ref_norm = SelectSeq(reference,
                                   LAMBDA c : Matchable(c) \/ c = WILDCARD)
           /\ trans_norm = SelectSeq(transcription, Matchable)
           /\ WILDCARD \notin Chars(trans_norm)
           /\ \A i \in 1..Len(trans_mapping) :
                  transcription[trans_mapping[i] + 1] = trans_norm[i]

\* the aligner runs on a reference whose '*' was kept and a transcription
\* whose '*' and leading whitespace were dropped
C19_Witness ==
    /\ pc = "loop"
    /\ WILDCARD \in Chars(ref_norm)
    /\ Len(ref_norm) < Len(reference)
    /\ WILDCARD \in Chars(transcription)
    /\ transcription[1] = " "
    /\ trans_mapping[1] > 0

\* the transcription from its first matchable character to its end
FromFirstMatchable(str) ==
    LET positions == {i \in 1..Len(str) : Matchable(str[i])}
    IN IF positions = {} THEN <<>> ELSE SubSeq(str, MinOf(positions), Len(str))

\* C20: whenever both normalized forms are non-empty (the aligner runs), the
\* texts of the returned equal and insert segments, concatenated in order,
\* are exactly the original transcription from its first matchable
\* character to its end: only the leading padding is left out.
C20_TranscriptionPreserved ==
    (/\ Returns
     /\ SelectSeq(reference, LAMBDA c : Matchable(c) \/ c = WILDCARD) # <<>>
     /\ SelectSeq(transcription, Matchable) # <<>>)
    => ConcatText(ret, {"equal", "insert"}) = FromFirstMatchable(transcription)

\* an alignment with equal, insert and delete segments of a transcription
\* that starts with whitespace
C20_Witness ==
    /\ Returns
    /\ ref_norm # <<>>
    /\ trans_norm # <<>>
    /\ transcription[1] = " "
    /\ {ret[i].type : i \in 1..Len(ret)} = {"equal", "insert", "delete"}

\* how many of the iterations from frame f on take the equal step
RECURSIVE EqualMatches(_)
EqualMatches(f) ==
    IF f.oob \/ f.brk \/ ~LoopCond(f) THEN 0
    ELSE (IF Branch(f) = "equal" THEN 1 ELSE 0) + EqualMatches(LoopBody(f))

\* the one-to-one matches the running call has made so far
MatchedSoFar ==
    EqualMatches(NewFrame(ref_norm, trans_norm, transcription, trans_mapping))
        - (IF pc = "loop" THEN EqualMatches(Frame) ELSE 0)

\* how far the reference is dealt with: up to the cursor while the loop
\* runs, the whole of it once the loop has stopped
Accounted == IF pc = "loop" THEN ref_idx ELSE Len(ref_norm)

\* the aligner was called and has not failed
AlignerRuns == pc \in {"loop", "merge"} \/ (Returns /\ ref_norm # <<>>)

DeleteText(segments) == ConcatText(segments, {"delete"})

\* C21: reference conservation.  In every run of the aligner each
\* non-wildcard character of the normalized reference is accounted for
\* exactly once: an equal step takes exactly one reference character,
\* identical to the transcription character at the other cursor, and appends
\* no delete; every other step appends as delete text exactly the
\* non-wildcard characters of the reference it passes.  So the delete texts
\* in order are a subsequence of the wildcard-stripped normalized reference,
\* and its length minus the total delete length is the number of one-to-one
\* equal matches.
C21_ReferenceConservation ==
    /\ [](AlignerRuns =>
            LET segments == IF Returns THEN ret ELSE result
                passed == StripWildcards(SubSeq(ref_norm, 1, Accounted))
            IN /\ IsSubsequence(DeleteText(segments), passed)
               /\ Len(passed) - Len(DeleteText(segments)) = MatchedSoFar
               /\ Returns => passed = StripWildcards(ref_norm))
    /\ [][pc = "loop" =>
            LET passed == StripWildcards(SubSeq(ref_norm, ref_idx + 1, Accounted'))
                appended == SubSeq(result', Len(result) + 1, Len(result'))
            IN /\ SubSeq(result', 1, Len(result)) = result
               /\ IF Equal
                     THEN /\ passed = <<ref_norm[ref_idx + 1]>>
                          /\ ref_norm[ref_idx + 1] = trans_norm[trans_idx + 1]
                          /\ ref_idx' = ref_idx + 1
                          /\ trans_idx' = trans_idx + 1
                          /\ DeleteText(appended) = <<>>
                     ELSE DeleteText(appended) = passed]_vars

\* a reference with a wildcard whose literals were partly deleted and partly
\* matched one-to-one
C21_Witness ==
    /\ Returns
    /\ WILDCARD \in Chars(ref_norm)
    /\ DeleteText(ret) # <<>>
    /\ Len(DeleteText(ret)) < Len(StripWildcards(ref_norm))
    /\ MatchedSoFar >= 1

\* the matchable characters of a text, in order
MatchableText(text) == SelectSeq(text, Matchable)

EqualText(segments) == MatchableText(ConcatText(segments, {"equal"}))

\* C22: equal segments are sound.  A step that appends equal text is an
\* equal step, whose text holds the one transcription character under the
\* cursor, identical to the reference character under the other cursor, or
\* a wildcard step, whose text holds the transcription characters the run
\* consumed.  So when the reference contains no '*' the matchable characters
\* of the equal segments, in order, are a common subsequence of the
\* normalized reference and the normalized transcription (of the parts the
\* cursors have passed, while the loop runs).
C22_EqualSegmentsSound ==
    /\ []((AlignerRuns /\ WILDCARD \notin Chars(ref_norm)) =>
            LET segments == IF Returns THEN ret ELSE result
            IN /\ IsSubsequence(EqualText(segments), SubSeq(ref_norm, 1, ref_idx))
               /\ IsSubsequence(EqualText(segments), SubSeq(trans_norm, 1, trans_idx)))
    /\ []((Returns /\ WILDCARD \notin Chars(reference)) =>
            /\ IsSubsequence(EqualText(ret), RefNormOf(reference))
            /\ IsSubsequence(EqualText(ret), TransNormOf(transcription)))
    /\ [][pc = "loop" =>
            LET appended == SubSeq(result', Len(result) + 1, Len(result'))
            IN ConcatText(appended, {"equal"}) # <<>> =>
                  \/ /\ Equal
                     /\ ref_norm[ref_idx + 1] = trans_norm[trans_idx + 1]
                     /\ EqualText(appended) = <<trans_norm[trans_idx + 1]>>
                  \/ /\ Wildcard
                     /\ EqualText(appended) =
                            SubSeq(trans_norm, trans_idx + 1, StopAt)]_vars

\* a reference without wildcards whose call returned two one-to-one matches
\* around a deleted character
C22_Witness ==
    /\ Returns
    /\ WILDCARD \notin Chars(reference)
    /\ Len(EqualText(ret)) >= 2
    /\ Len(ret) >= 3
    /\ DeleteText(ret) # <<>>

\* C23: history records are isolated per owner.  Whatever calls of
\* create_record, get_record_by_id, delete_record and delete_all_records
\* came before, a call made with identity u (a user id, or None for a
\* guest) returns no record and deletes no record whose user_id is another
\* user's id; in particular a guest call reads and deletes no record owned
\* by a user.
C23_RecordsIsolatedPerOwner ==
    \A r \in last_call.returned \cup last_call.deleted :
        r.user_id \in UserIds => r.user_id = last_call.user_id

====
